---- MODULE Spec2Model ----
(***************************************************************************)
(* Model of src/floder.py: an incremental, timestamped folder backup tool. *)
(* One run of main() is a sequence of steps: the precondition check, the   *)
(* snapshot walk of incremental_backup, the replacement of `latest`, the   *)
(* optional compress_backup and rotate_backups.  The file system is the    *)
(* state: the source tree, the destination root with its backup_<ts>       *)
(* directories, their .zip archives and the `latest` directory.            *)
(***************************************************************************)
EXTENDS Integers, Sequences, FiniteSets, TLC

\* ---------------------------------------------------------------- bounds
\* clock ticks (seconds) the environment may let pass
MaxTicks == 2
\* runs of main() in one behaviour
MaxRuns == 3
\* edits of the source tree between runs
MaxEdits == 1
\* I/O failures and kills in one behaviour
MaxFail == 1
\* greatest value passed as --keep
MaxKeep == 2

\* ------------------------------------------------------- the file system
\* Relative paths of the source tree: one file in the root, one in sub/.
Files == {"a.txt", "sub/b.txt"}
Parent(f) == IF f = "a.txt" THEN "." ELSE "sub"

Sizes == {1, 2}
Mtimes == {0, 1}

\* what stat() gives for a path: st_size and st_mtime, or no such file
NoFile == [present |-> FALSE, size |-> 0, mtime |-> 0]
FileOf(s, m) == [present |-> TRUE, size |-> s, mtime |-> m]
NoFiles == [f \in Files |-> NoFile]

\* a directory tree: its directories and its files (absent: exists = FALSE)
NoTree == [exists |-> FALSE, dirs |-> {}, files |-> NoFiles]
\* a zip archive: its entries, named by relative path
NoZip == [exists |-> FALSE, entries |-> NoFiles]

PresentFiles(tree) == {f \in Files : tree.files[f].present}

\* seconds the clock can show; the clock starts just before a digit carries
Times == 8 .. (8 + MaxTicks)
FirstTime == CHOOSE t \in Times : \A u \in Times : t <= u

\* datetime.now().strftime(...): zero-padded, fixed-width digits.  Only the
\* seconds field varies in the model; it is kept as its two digits.
Strftime(t) == << t \div 10, t % 10 >>
Names == {Strftime(t) : t \in Times}

\* string comparison of two snapshot names, character by character
RECURSIVE LexLess(_, _)
LexLess(s, t) ==
    IF s = << >> THEN t # << >>
    ELSE IF t = << >> THEN FALSE
    ELSE IF Head(s) # Head(t) THEN Head(s) < Head(t)
    ELSE LexLess(Tail(s), Tail(t))

\* sorted(...): ascending by name
RECURSIVE Sorted(_)
Sorted(S) ==
    IF S = {} THEN << >>
    ELSE LET m == CHOOSE x \in S : \A y \in S : y = x \/ LexLess(x, y)
         IN << m >> \o Sorted(S \ {m})

\* the python slice s[:stop] (a negative stop counts from the end)
SliceTo(s, stop) ==
    LET n == Len(s)
        e == IF stop < 0 THEN (IF n + stop < 0 THEN 0 ELSE n + stop)
             ELSE (IF stop > n THEN n ELSE stop)
    IN SubSeq(s, 1, e)

Range(s) == {s[i] : i \in 1 .. Len(s)}

\* ------------------------------------------------------ Change Detector
\* file_changed with the mtime test written >= (an equal mtime counts as newer)
file_changed_ge(src_file, dest_file) ==
    IF ~dest_file.present THEN TRUE
    ELSE src_file.mtime >= dest_file.mtime \/ src_file.size # dest_file.size

file_changed(src_file, dest_file) ==
    IF ~dest_file.present THEN TRUE
    ELSE src_file.mtime > dest_file.mtime \/ src_file.size # dest_file.size

\* os.walk(source): top-down, each directory followed by its files
WalkOrder(tree) ==
    LET visit(d) == IF d \in tree.dirs
                    THEN << [kind |-> "dir", path |-> d] >>
                         \o (IF \E f \in PresentFiles(tree) : Parent(f) = d
                             THEN << [kind |-> "file",
                                      path |-> CHOOSE f \in PresentFiles(tree) : Parent(f) = d] >>
                             ELSE << >>)
                    ELSE << >>
    IN visit(".") \o visit("sub")

\* Path.mkdir(parents=True, exist_ok=True) of a directory inside a tree
Mkdir(tree, d) ==
    IF tree.exists THEN [tree EXCEPT !.dirs = @ \cup {".", d}]
    ELSE [exists |-> TRUE, dirs |-> {".", d}, files |-> NoFiles]

\* shutil.copy2: content, mtime and mode go to the target path
Copy2(tree, f, rec) == [tree EXCEPT !.files[f] = rec]

\* shutil.copytree(src, dst) into an absent dst: dst is made, every directory
\* mirrored and every file copied with copy2
CopyTree(tree) ==
    [exists |-> TRUE, dirs |-> {"."} \cup tree.dirs,
     files |-> [f \in Files |-> tree.files[f]]]

\* what a copy of a tree that failed on one file may leave behind
Partial(tree) ==
    {NoTree} \cup {[tree EXCEPT !.files[f] = NoFile] : f \in PresentFiles(tree)}

\* the guard forgotten: the mutation is made in a dry run too
IfNotDryIgnored(dry_run, new, old) == new

\* "if not dry_run:" guarding a mutation: the new value, or the old one kept
IfNotDry(dry_run, new, old) == IF dry_run THEN old ELSE new

\* a relative path as its components
Components(f) == IF f = "a.txt" THEN << "a.txt" >> ELSE << "sub", "b.txt" >>

\* the path cut one component early: the name of the base folder is kept
RelativeToParent(path, base) == SubSeq(path, Len(base), Len(path))

\* Path.relative_to(base) of a path below base: the components after base
RelativeTo(path, base) == SubSeq(path, Len(base) + 1, Len(path))

\* line 104: the name an entry is written under, for the file Path(root)/file
\* found by the walk of backup_folder
ArcName(f) ==
    RelativeTo(<< "backup_folder" >> \o Components(f), << "backup_folder" >>)

\* compress_backup's loop: one entry per file of the folder, written under its
\* arcname with the file's content; the archive is read by relative path
ZipOf(tree) ==
    [exists |-> TRUE,
     entries |-> [a \in Files |->
        IF \E f \in PresentFiles(tree) : ArcName(f) = Components(a)
        THEN tree.files[CHOOSE f \in PresentFiles(tree) : ArcName(f) = Components(a)]
        ELSE NoFile]]

VARIABLES
    source,          \* the source tree
    destExists,      \* whether the destination root exists
    backups,         \* name -> tree of destination/backup_<name>
    zips,            \* name -> archive destination/backup_<name>.zip
    latest,          \* tree of destination/latest
    clock,           \* datetime.now(), in seconds
    pc,              \* where the process is
    args,            \* the parsed arguments of the run
    backup_folder,   \* incremental_backup's backup_folder (its name)
    previous_backup, \* incremental_backup's previous_backup is not None
    todo,            \* what os.walk has yet to yield
    decisions,       \* per file: "copy" (logged Copying), "skip" or "none"
    copied_files,
    skipped_files,
    listed,          \* rotate_backups' backups: the sorted list it read
    remove_list,     \* rotate_backups' remove_list, not yet visited
    rotated,         \* folders logged "Rotating old backup"
    steps,           \* the steps of the run that were executed, in order
    pre,             \* the destination's contents when the run started
    preRoot,         \* whether the destination root existed when it started
    prev,            \* what the previous run did
    srcChanged,      \* the source was edited since the last run started
    sameSource,      \* the source is as it was when the previous run started
    sameDest,        \* the destination is as it was when the previous run started
    error,           \* what ended the run early ("none": nothing)
    clean,           \* no failure or kill has happened so far
    everReal,        \* some run so far was not a dry run and found its source
    runs, edits, fails

vars == << source, destExists, backups, zips, latest, clock, pc, args,
           backup_folder, previous_backup, todo, decisions, copied_files,
           skipped_files, listed, remove_list, rotated, steps, pre, preRoot,
           prev, srcChanged, sameSource, sameDest, error, clean, everReal, runs,
           edits, fails >>

fsVars == << source, destExists, backups, zips, latest >>
walkVars == << previous_backup, todo, decisions, copied_files, skipped_files >>
rotVars == << listed, remove_list, rotated >>
histVars == << pre, preRoot, prev, srcChanged, sameSource, sameDest, everReal, runs,
              edits >>

Terminal == {"idle", "done", "aborted", "failed", "killed"}
Running == {"backup", "walk", "update_latest", "copytree", "compress",
            "rotate", "rotating"}

\* the contents of the destination root
Dest == [backups |-> backups, zips |-> zips, latest |-> latest]

ExistingBackups == {n \in Names : backups[n].exists}

NoArgs == [dry_run |-> FALSE, zip |-> FALSE, keep |-> 0]
NoDecisions == [f \in Files |-> "none"]
NoRun == [pc |-> "idle", args |-> NoArgs, backup_folder |-> << >>,
          decisions |-> NoDecisions, copied |-> 0, skipped |-> 0,
          rotated |-> {}, latest_open |-> FALSE]

\* the run was killed after line 86 removed the old latest and before line 88
\* made the new one
LatestOpen ==
    /\ pc = "killed"
    /\ steps # << >>
    /\ steps[Len(steps)] = "remove_latest"

\* What is remembered of a run once the next one starts: how it ended, whether
\* it was a dry run and its snapshot name; of a completed dry run also what it
\* reported (its arguments, decisions, counts and the folders it chose); of a
\* killed run whether it had removed latest and not yet recreated it.
Summary ==
    IF pc = "done" /\ args.dry_run
    THEN [pc |-> pc, args |-> args, backup_folder |-> backup_folder,
          decisions |-> decisions, copied |-> copied_files,
          skipped |-> skipped_files, rotated |-> rotated,
          latest_open |-> FALSE]
    ELSE [NoRun EXCEPT !.pc = pc, !.args.dry_run = args.dry_run,
                       !.backup_folder = backup_folder,
                       !.latest_open = LatestOpen]
NoDest == [backups |-> [n \in Names |-> NoTree],
           zips |-> [n \in Names |-> NoZip], latest |-> NoTree]

InitialSource ==
    [exists |-> TRUE, dirs |-> {".", "sub"},
     files |-> [f \in Files |-> FileOf(1, 0)]]

Init ==
    /\ source = InitialSource
    /\ destExists = FALSE
    /\ backups = [n \in Names |-> NoTree]
    /\ zips = [n \in Names |-> NoZip]
    /\ latest = NoTree
    /\ clock = FirstTime
    /\ pc = "idle"
    /\ args = NoArgs
    /\ backup_folder = << >>
    /\ previous_backup = FALSE
    /\ todo = << >>
    /\ decisions = NoDecisions
    /\ copied_files = 0
    /\ skipped_files = 0
    /\ listed = << >>
    /\ remove_list = << >>
    /\ rotated = {}
    /\ steps = << >>
    /\ pre = NoDest
    /\ preRoot = FALSE
    /\ sameDest = FALSE
    /\ prev = NoRun
    /\ srcChanged = FALSE
    /\ sameSource = FALSE
    /\ error = "none"
    /\ clean = TRUE
    /\ everReal = FALSE
    /\ runs = 0
    /\ edits = 0
    /\ fails = 0

\* ------------------------------------------------------------ environment
\* A second passes.  Only the order of the snapshot names matters, so a second
\* in which no run took its timestamp is not modelled.
Tick ==
    /\ pc \in Terminal
    /\ runs < MaxRuns
    /\ backup_folder = Strftime(clock)
    /\ clock + 1 \in Times
    /\ clock' = clock + 1
    /\ UNCHANGED << fsVars, pc, args, backup_folder, walkVars, rotVars, steps,
                    histVars, error, clean, fails >>

Edited(tree) ==
    /\ pc \in Terminal
    /\ runs < MaxRuns
    /\ edits < MaxEdits
    /\ source.exists
    /\ tree # source
    /\ source' = tree
    /\ edits' = edits + 1
    /\ srcChanged' = TRUE
    /\ UNCHANGED << destExists, backups, zips, latest, clock, pc, args,
                    backup_folder, walkVars, rotVars, steps, pre, preRoot,
                    prev, sameSource, sameDest, everReal, runs, error, clean,
                    fails >>

\* the user writes (creates, resizes, touches) a source file
WriteFile == \E f \in Files, s \in Sizes, m \in Mtimes :
    Edited(Copy2(Mkdir(source, Parent(f)), f, FileOf(s, m)))

\* the user deletes a source file
DeleteFile == \E f \in PresentFiles(source) :
    Edited([source EXCEPT !.files[f] = NoFile])

\* the user removes the source folder
RemoveSource == Edited(NoTree)

\* ------------------------------------------------------------------ main
\* the destination root made before the source is looked at
MkdirRootFirst(found, root) == TRUE

\* lines 147-151: the destination root is made only once the source is found
MkdirRoot(found, root) == IF found THEN TRUE ELSE root

\* lines 131-151: parse the arguments, check the source, make the destination
Main == \E dry \in BOOLEAN, zip \in BOOLEAN, keep \in 0 .. MaxKeep :
    /\ pc \in Terminal
    /\ runs < MaxRuns
    /\ runs' = runs + 1
    /\ prev' = Summary
    /\ sameDest' = (Dest = pre)
    /\ args' = [dry_run |-> dry, zip |-> zip, keep |-> keep]
    /\ pre' = Dest
    /\ preRoot' = destExists
    /\ sameSource' = ~srcChanged
    /\ srcChanged' = FALSE
    /\ backup_folder' = << >>
    /\ previous_backup' = FALSE
    /\ todo' = << >>
    /\ decisions' = NoDecisions
    /\ copied_files' = 0
    /\ skipped_files' = 0
    /\ listed' = << >>
    /\ remove_list' = << >>
    /\ rotated' = {}
    /\ error' = "none"
    /\ everReal' = (everReal \/ (source.exists /\ ~dry))
    /\ destExists' = MkdirRoot(source.exists, destExists)
    /\ IF ~source.exists
       THEN /\ pc' = "aborted"
            /\ steps' = << >>
       ELSE /\ pc' = "backup"
            /\ steps' = << "mkdir_destination" >>
    /\ UNCHANGED << source, backups, zips, latest, clock, edits, clean, fails >>

\* a step that succeeds leaves the failure bookkeeping alone
Ok == UNCHANGED << error, clean, fails >>

\* an uncaught exception ends the process with a traceback
Raise(what) ==
    /\ fails < MaxFail
    /\ fails' = fails + 1
    /\ pc' = "failed"
    /\ error' = what
    /\ clean' = FALSE

\* ---------------------------------------------------- incremental_backup
\* lines 37-50
BackupStart ==
    /\ pc = "backup"
    /\ backup_folder' = Strftime(clock)
    /\ backups' = IfNotDry(args.dry_run,
                           [backups EXCEPT ![Strftime(clock)] = Mkdir(@, ".")],
                           backups)
    /\ previous_backup' = latest.exists
    /\ todo' = WalkOrder(source)
    /\ copied_files' = 0
    /\ skipped_files' = 0
    /\ steps' = Append(steps, "mkdir_snapshot")
    /\ pc' = "walk"
    /\ Ok
    /\ UNCHANGED << source, destExists, zips, latest, clock, args, decisions,
                    rotVars, histVars >>

\* line 69 with a missing previous backup taken to mean "nothing to copy"
ShouldCopyStrict(f) ==
    /\ previous_backup
    /\ file_changed(source.files[f], latest.files[f])

\* line 69: whether the file is copied
ShouldCopy(f) ==
    \/ ~previous_backup
    \/ file_changed(source.files[f], latest.files[f])

\* lines 52-57: os.walk yields a directory
WalkDir ==
    /\ pc = "walk"
    /\ todo # << >>
    /\ Head(todo).kind = "dir"
    /\ backups' = IfNotDry(args.dry_run,
                           [backups EXCEPT ![backup_folder] = Mkdir(@, Head(todo).path)],
                           backups)
    /\ todo' = Tail(todo)
    /\ Ok
    /\ UNCHANGED << source, destExists, zips, latest, clock, pc, args,
                    backup_folder, previous_backup, decisions, copied_files,
                    skipped_files, rotVars, steps, histVars >>

\* lines 59-75: one file of the directory, copied or skipped
WalkFile ==
    /\ pc = "walk"
    /\ todo # << >>
    /\ Head(todo).kind = "file"
    /\ LET f == Head(todo).path IN
       IF ShouldCopy(f)
       THEN /\ decisions' = [decisions EXCEPT ![f] = "copy"]
            /\ copied_files' = copied_files + 1
            /\ backups' = IfNotDry(args.dry_run,
                                   [backups EXCEPT ![backup_folder] =
                                       Copy2(@, f, source.files[f])],
                                   backups)
            /\ steps' = Append(steps, "copy")
            /\ UNCHANGED skipped_files
       ELSE /\ decisions' = [decisions EXCEPT ![f] = "skip"]
            /\ skipped_files' = skipped_files + 1
            /\ UNCHANGED << copied_files, backups, steps >>
    /\ todo' = Tail(todo)
    /\ Ok
    /\ UNCHANGED << source, destExists, zips, latest, clock, pc, args,
                    backup_folder, previous_backup, rotVars, histVars >>

\* lines 70-73 when shutil.copy2 raises: the file was logged and counted
CopyFails ==
    /\ pc = "walk"
    /\ todo # << >>
    /\ Head(todo).kind = "file"
    /\ ShouldCopy(Head(todo).path)
    /\ ~args.dry_run
    /\ decisions' = [decisions EXCEPT ![Head(todo).path] = "copy"]
    /\ copied_files' = copied_files + 1
    /\ Raise("copy")
    /\ UNCHANGED << fsVars, clock, args, backup_folder, previous_backup, todo,
                    skipped_files, rotVars, steps, histVars >>

\* the archive step taken right after the walk, latest left for later
AfterWalkCompress == "compress"

\* lines 77-81: what follows the loop of the walk is the update of latest
AfterWalk == "update_latest"

\* lines 77-78: the walk is over, the counts are logged
LogCounts ==
    /\ pc = "walk"
    /\ todo = << >>
    /\ pc' = AfterWalk
    /\ Ok
    /\ UNCHANGED << fsVars, clock, args, backup_folder, walkVars, rotVars,
                    steps, histVars >>

\* lines 81-86: the old latest is removed
RemoveLatest ==
    /\ pc = "update_latest"
    /\ IF args.dry_run
       THEN /\ pc' = "compress"
            /\ UNCHANGED << latest, steps >>
       ELSE IF latest.exists
       THEN /\ latest' = NoTree
            /\ steps' = Append(steps, "remove_latest")
            /\ pc' = "copytree"
       ELSE /\ pc' = "copytree"
            /\ UNCHANGED << latest, steps >>
    /\ Ok
    /\ UNCHANGED << source, destExists, backups, zips, clock, args,
                    backup_folder, walkVars, rotVars, histVars >>

\* line 86 when shutil.rmtree raises
RemoveLatestFails ==
    /\ pc = "update_latest"
    /\ ~args.dry_run
    /\ latest.exists
    /\ Raise("remove_latest")
    /\ UNCHANGED << fsVars, clock, args, backup_folder, walkVars, rotVars,
                    steps, histVars >>

\* line 88: latest is recreated as a copy of the new snapshot
RecreateLatest ==
    /\ pc = "copytree"
    /\ latest' = CopyTree(backups[backup_folder])
    /\ steps' = Append(steps, "copytree")
    /\ pc' = "compress"
    /\ Ok
    /\ UNCHANGED << source, destExists, backups, zips, clock, args,
                    backup_folder, walkVars, rotVars, histVars >>

\* line 88 when shutil.copytree raises: it goes on after a file it cannot copy
\* and raises at the end
RecreateLatestFails ==
    /\ pc = "copytree"
    /\ Raise("copytree")
    /\ latest' \in Partial(CopyTree(backups[backup_folder]))
    /\ UNCHANGED << source, destExists, backups, zips, clock, args,
                    backup_folder, walkVars, rotVars, steps, histVars >>

\* ------------------------------------------------------- compress_backup
\* lines 155-156 and 93-106
Compress ==
    /\ pc = "compress"
    /\ IF ~args.zip
       THEN UNCHANGED << zips, steps >>
       ELSE /\ steps' = Append(steps, "compress")
            /\ zips' = IfNotDry(args.dry_run,
                                [zips EXCEPT ![backup_folder] =
                                    ZipOf(backups[backup_folder])],
                                zips)
    /\ pc' = "rotate"
    /\ Ok
    /\ UNCHANGED << source, destExists, backups, latest, clock, args,
                    backup_folder, walkVars, rotVars, histVars >>

\* lines 100-104 when writing the archive raises: the file was opened for
\* writing and is left partly written
CompressFails ==
    /\ pc = "compress"
    /\ args.zip
    /\ ~args.dry_run
    /\ Raise("zip")
    /\ \E t \in Partial(backups[backup_folder]) :
          zips' = [zips EXCEPT ![backup_folder] = ZipOf(t)]
    /\ UNCHANGED << source, destExists, backups, latest, clock, args,
                    backup_folder, walkVars, rotVars, steps, histVars >>

\* -------------------------------------------------------- rotate_backups
\* the list sorted newest first
RECURSIVE Reversed(_)
Reversed(s) == IF s = << >> THEN << >> ELSE Append(Reversed(Tail(s)), Head(s))
BackupListDescending(existing) == Reversed(Sorted(existing))

\* line 111: the backup_* directories of the destination, sorted
BackupList(existing) == Sorted(existing)

\* the slice written backups[keep:]: the newest are removed, the oldest kept
RemoveListNewest(list, keep) == SubSeq(list, keep + 1, Len(list))

\* the slice one too long: the oldest of the folders to keep is removed too
RemoveListOneMore(list, keep) == SliceTo(list, Len(list) - keep + 1)

\* line 117: backups[:-keep]
RemoveList(list, keep) == SliceTo(list, 0 - keep)

\* lines 110-117
RotateStart ==
    /\ pc = "rotate"
    /\ steps' = Append(steps, "rotate")
    /\ rotated' = {}
    /\ listed' = BackupList(ExistingBackups)
    /\ IF Len(BackupList(ExistingBackups)) <= args.keep
       THEN /\ pc' = "done"
            /\ remove_list' = << >>
       ELSE /\ pc' = "rotating"
            /\ remove_list' = RemoveList(BackupList(ExistingBackups), args.keep)
    /\ Ok
    /\ UNCHANGED << fsVars, clock, args, backup_folder, walkVars, histVars >>

\* lines 118-128: one folder of remove_list and its archive
RotateStep ==
    /\ pc = "rotating"
    /\ remove_list # << >>
    /\ rotated' = rotated \cup {Head(remove_list)}
    /\ backups' = IfNotDry(args.dry_run,
                           [backups EXCEPT ![Head(remove_list)] = NoTree],
                           backups)
    /\ zips' = IfNotDry(args.dry_run,
                        [zips EXCEPT ![Head(remove_list)] = NoZip], zips)
    /\ remove_list' = Tail(remove_list)
    /\ Ok
    /\ UNCHANGED << source, destExists, latest, clock, pc, args, backup_folder,
                    walkVars, listed, steps, histVars >>

\* line 121 when shutil.rmtree raises
RmtreeFails ==
    /\ pc = "rotating"
    /\ remove_list # << >>
    /\ ~args.dry_run
    /\ rotated' = rotated \cup {Head(remove_list)}
    /\ Raise("rmtree")
    /\ UNCHANGED << fsVars, clock, args, backup_folder, walkVars, listed,
                    remove_list, steps, histVars >>

\* line 128 when unlink raises: the folder is gone, its archive is not
UnlinkFails ==
    /\ pc = "rotating"
    /\ remove_list # << >>
    /\ ~args.dry_run
    /\ zips[Head(remove_list)].exists
    /\ rotated' = rotated \cup {Head(remove_list)}
    /\ backups' = [backups EXCEPT ![Head(remove_list)] = NoTree]
    /\ Raise("unlink")
    /\ UNCHANGED << source, destExists, zips, latest, clock, args,
                    backup_folder, walkVars, listed, remove_list, steps,
                    histVars >>

\* the loop is over; line 160
RotateEnd ==
    /\ pc = "rotating"
    /\ remove_list = << >>
    /\ pc' = "done"
    /\ Ok
    /\ UNCHANGED << fsVars, clock, args, backup_folder, walkVars, rotVars,
                    steps, histVars >>

\* the process is killed (or the machine stops) between two steps
Kill ==
    /\ pc \in Running
    /\ fails < MaxFail
    /\ fails' = fails + 1
    /\ pc' = "killed"
    /\ error' = "kill"
    /\ clean' = FALSE
    /\ UNCHANGED << fsVars, clock, args, backup_folder, walkVars, rotVars,
                    steps, histVars >>

\* -------------------------------------------------------- specifications
\* the steps of a run in which every file system call succeeds
Next ==
    \/ Tick
    \/ WriteFile
    \/ DeleteFile
    \/ RemoveSource
    \/ Main
    \/ BackupStart
    \/ WalkDir
    \/ WalkFile
    \/ LogCounts
    \/ RemoveLatest
    \/ RecreateLatest
    \/ Compress
    \/ RotateStart
    \/ RotateStep
    \/ RotateEnd

\* the same, and the file system calls may fail and the process may be killed
NextF ==
    \/ Next
    \/ CopyFails
    \/ RemoveLatestFails
    \/ RecreateLatestFails
    \/ CompressFails
    \/ RmtreeFails
    \/ UnlinkFails
    \/ Kill

\* failure-free behaviours
Spec == Init /\ [][Next]_vars

\* behaviours with up to MaxFail failures
SpecF == Init /\ [][NextF]_vars

\* ---------------------------------------------- the walk on any inputs
FileRecs == {NoFile} \cup {FileOf(sz, m) : sz \in Sizes, m \in Mtimes}

\* every tree over Files: a file lies in a directory of the tree
Trees ==
    {t \in [exists : {TRUE}, dirs : {{"."}, {".", "sub"}},
            files : [Files -> FileRecs]] :
        \A f \in Files : t.files[f].present => Parent(f) \in t.dirs}

\* a run that has just entered one of its steps: nothing walked, nothing
\* rotated, no earlier run remembered
Entered(at) ==
    /\ pc = at
    /\ destExists = TRUE
    /\ previous_backup = FALSE
    /\ todo = << >>
    /\ decisions = NoDecisions
    /\ copied_files = 0
    /\ skipped_files = 0
    /\ listed = << >>
    /\ remove_list = << >>
    /\ rotated = {}
    /\ steps = << "mkdir_destination" >>
    /\ pre = Dest
    /\ preRoot = TRUE
    /\ prev = NoRun
    /\ srcChanged = FALSE
    /\ sameSource = FALSE
    /\ sameDest = FALSE
    /\ error = "none"
    /\ clean = TRUE
    /\ everReal = ~args.dry_run
    /\ runs = 1
    /\ edits = 0
    /\ fails = 0

\* incremental_backup is entered with any source tree and any latest; a
\* snapshot made earlier in the same second may be there already
InitWalk ==
    /\ source \in Trees
    /\ latest \in Trees \cup {NoTree}
    /\ args \in [dry_run : BOOLEAN, zip : {FALSE}, keep : {MaxKeep}]
    /\ \E t \in Trees \cup {NoTree} :
          backups = [n \in Names |-> IF n = Strftime(FirstTime) THEN t ELSE NoTree]
    /\ zips = [n \in Names |-> NoZip]
    /\ clock = FirstTime
    /\ backup_folder = << >>
    /\ Entered("backup")

NextWalk ==
    \/ BackupStart
    \/ WalkDir
    \/ WalkFile
    \/ LogCounts

\* the snapshot walk alone, on every source tree and every latest
SpecWalk == InitWalk /\ [][NextWalk]_vars

\* ------------------------------------- the rotation on any destination
\* rotate_backups is entered with any set of backup_* folders and archives
InitRotate ==
    /\ source = InitialSource
    /\ latest \in {NoTree, InitialSource}
    /\ args \in [dry_run : BOOLEAN, zip : {FALSE}, keep : 0 .. MaxKeep]
    /\ backups \in [Names -> {NoTree, InitialSource}]
    /\ zips \in [Names -> {NoZip, ZipOf(InitialSource)}]
    /\ clock = FirstTime
    /\ backup_folder = Strftime(FirstTime)
    /\ Entered("rotate")

NextRotate ==
    \/ RotateStart
    \/ RotateStep
    \/ RmtreeFails
    \/ UnlinkFails
    \/ RotateEnd

\* rotate_backups alone, on every destination; a removal may fail
SpecRotate == InitRotate /\ [][NextRotate]_vars

\* ------------------------------------------ one run on any destination
LastTime == CHOOSE t \in Times : \A u \in Times : u <= t

\* main has checked the source and made the destination: any source tree, any
\* set of earlier snapshots and archives (none later than now), latest absent
\* or left by an earlier run, any arguments
InitRun ==
    /\ source \in Trees
    /\ latest \in {NoTree, InitialSource}
    /\ args \in [dry_run : BOOLEAN, zip : BOOLEAN, keep : 0 .. MaxKeep]
    /\ backups \in [Names -> {NoTree, InitialSource}]
    /\ zips \in [Names -> {NoZip, ZipOf(InitialSource)}]
    /\ clock = LastTime
    /\ backup_folder = << >>
    /\ Entered("backup")

NextRun ==
    \/ BackupStart
    \/ WalkDir
    \/ WalkFile
    \/ LogCounts
    \/ RemoveLatest
    \/ RecreateLatest
    \/ Compress
    \/ RotateStart
    \/ RotateStep
    \/ RotateEnd

\* one failure-free run of the pipeline, on every source and destination
SpecRun == InitRun /\ [][NextRun]_vars

\* ------------------------------------- main on any source and destination
\* main is started once: the source is a tree or is not there, the destination
\* root is not there or holds any set of snapshots and archives
InitMain ==
    /\ source \in Trees \cup {NoTree}
    /\ destExists \in BOOLEAN
    /\ latest \in {NoTree, InitialSource}
    /\ backups \in [Names -> {NoTree, InitialSource}]
    /\ zips \in [Names -> {NoZip, ZipOf(InitialSource)}]
    /\ ~destExists => Dest = NoDest
    /\ clock = LastTime
    /\ pc = "idle"
    /\ args = NoArgs
    /\ backup_folder = << >>
    /\ previous_backup = FALSE
    /\ todo = << >>
    /\ decisions = NoDecisions
    /\ copied_files = 0
    /\ skipped_files = 0
    /\ listed = << >>
    /\ remove_list = << >>
    /\ rotated = {}
    /\ steps = << >>
    /\ pre = Dest
    /\ preRoot = destExists
    /\ prev = NoRun
    /\ srcChanged = FALSE
    /\ sameSource = FALSE
    /\ sameDest = FALSE
    /\ error = "none"
    /\ clean = TRUE
    /\ everReal = FALSE
    /\ runs = MaxRuns - 1
    /\ edits = 0
    /\ fails = 0

NextMain ==
    \/ Main
    \/ NextRun

\* one failure-free run of main from its first line
SpecMain == InitMain /\ [][NextMain]_vars

\* ------------------------------------------- a run that may be killed
\* A non-dry run has been started on any source tree, with latest absent or
\* left by an earlier run and possibly a snapshot of the same second; the
\* process may be killed between two steps, and one more run follows.
InitCrash ==
    /\ source \in Trees
    /\ destExists = TRUE
    /\ latest \in {NoTree, InitialSource}
    /\ args \in [dry_run : {FALSE}, zip : {FALSE}, keep : {MaxKeep}]
    /\ backups \in {[NoDest.backups EXCEPT ![Strftime(FirstTime)] = t] :
                      t \in {NoTree, InitialSource}}
    /\ zips = NoDest.zips
    /\ clock = FirstTime
    /\ pc = "backup"
    /\ backup_folder = << >>
    /\ previous_backup = FALSE
    /\ todo = << >>
    /\ decisions = NoDecisions
    /\ copied_files = 0
    /\ skipped_files = 0
    /\ listed = << >>
    /\ remove_list = << >>
    /\ rotated = {}
    /\ steps = << "mkdir_destination" >>
    /\ pre = Dest
    /\ preRoot = TRUE
    /\ prev = NoRun
    /\ srcChanged = FALSE
    /\ sameSource = FALSE
    /\ sameDest = FALSE
    /\ error = "none"
    /\ clean = TRUE
    /\ everReal = TRUE
    /\ runs = MaxRuns - 1
    /\ edits = 0
    /\ fails = 0

NextCrash ==
    \/ NextRun
    \/ Kill
    \/ Tick
    \/ Main

\* a run that may be killed at any step, and the run after it
SpecCrash == InitCrash /\ [][NextCrash]_vars

TypeOK ==
    /\ pc \in Terminal \cup Running
    /\ clock \in Times
    /\ copied_files \in 0 .. Cardinality(Files)
    /\ skipped_files \in 0 .. Cardinality(Files)

\* ------------------------------------------------------------ properties
\* the lexicographically greatest name of a set, and its k greatest names
Newest(S) == CHOOSE n \in S : \A m \in S : m = n \/ LexLess(m, n)
Greatest(S, k) == {n \in S : Cardinality({m \in S : LexLess(n, m)}) < k}
Counted(d) == Cardinality({f \in Files : decisions[f] = d})

\* C1: after a sequence of completed failure-free runs from an empty
\* destination, one of them not a dry run, latest exists and its tree (its
\* directories, its files, their sizes and mtimes) is the tree of the
\* lexicographically greatest backup_* directory of the destination.
C1_LatestMirrorsNewest ==
    (pc \in {"done", "aborted"} /\ clean /\ everReal) =>
        /\ latest.exists
        /\ ExistingBackups # {}
        /\ latest = backups[Newest(ExistingBackups)]

\* C1 witness: a non-dry run over older snapshots has rotated one away and
\* latest, with files in it, is the newest of the snapshots left.
C1_Witness ==
    /\ pc = "done"
    /\ ~args.dry_run
    /\ rotated # {}
    /\ Cardinality(ExistingBackups) >= 2
    /\ PresentFiles(latest) # {}
    /\ latest = backups[Newest(ExistingBackups)]

\* C2: a non-dry run that completes right after a completed non-dry run with
\* another timestamp, the source unchanged in between, reports 0 copied files
\* and as many skipped files as the source holds.
C2_Idempotent ==
    (/\ pc = "done" /\ ~args.dry_run
     /\ prev.pc = "done" /\ ~prev.args.dry_run
     /\ prev.backup_folder # backup_folder
     /\ sameSource /\ ~srcChanged /\ clean) =>
        /\ copied_files = 0
        /\ skipped_files = Cardinality(PresentFiles(source))

\* C3: a non-dry rotate_backups that found m > keep >= 1 backup_* directories
\* leaves exactly keep of them, the keep lexicographically greatest, and no
\* archive of a directory it removed.
C3_Retention ==
    (pc = "done" /\ ~args.dry_run /\ args.keep >= 1 /\ Len(listed) > args.keep) =>
        /\ Cardinality(ExistingBackups) = args.keep
        /\ ExistingBackups = Greatest(Range(listed), args.keep)
        /\ \A n \in Range(listed) \ ExistingBackups : ~zips[n].exists

\* C3 witness: a rotation has removed two directories, one of which had an
\* archive before the run.
C3_Witness ==
    /\ pc = "done"
    /\ ~args.dry_run
    /\ args.keep >= 1
    /\ Len(listed) > args.keep + 1
    /\ Cardinality(rotated) >= 2
    /\ \E n \in rotated : pre.zips[n].exists /\ ~zips[n].exists /\ ~backups[n].exists

\* C4: during and after a dry run the contents of the destination root (the
\* backup_* directories, the archives, latest and their files) are what they
\* were when the run started.
C4_DryRunMutationFree ==
    args.dry_run => Dest = pre

\* C4 witness: a dry run with --zip has finished over a destination with
\* snapshots, having logged a copy and a rotation.
C4_Witness ==
    /\ pc = "done"
    /\ args.dry_run
    /\ args.zip
    /\ copied_files > 0
    /\ rotated # {}
    /\ pre.latest.exists
    /\ Dest = pre

\* C5: a dry run and the non-dry run that follows it from the same source and
\* destination, with the same --zip and --keep, report the same counts, the
\* same decision for each file and the same folders chosen for rotation.
C5_DryRunSameReport ==
    (/\ pc = "done" /\ ~args.dry_run
     /\ prev.pc = "done" /\ prev.args.dry_run
     /\ prev.args.zip = args.zip /\ prev.args.keep = args.keep
     /\ sameSource /\ sameDest /\ clean) =>
        /\ prev.copied = copied_files
        /\ prev.skipped = skipped_files
        /\ prev.decisions = decisions
        /\ prev.rotated = rotated

\* C6: a file compared with its reference file is copied exactly when the
\* reference file does not exist, or the source mtime is strictly newer, or
\* the sizes differ; so it is skipped when the sizes are equal and the source
\* mtime is not newer, and copied when the sizes differ whatever the mtimes.
C6_ChangeDetector ==
    \A f \in Files :
        (previous_backup /\ decisions[f] # "none") =>
            /\ (decisions[f] = "copy") <=>
                  \/ ~latest.files[f].present
                  \/ source.files[f].mtime > latest.files[f].mtime
                  \/ source.files[f].size # latest.files[f].size
            /\ (/\ latest.files[f].present
                /\ source.files[f].size = latest.files[f].size
                /\ source.files[f].mtime <= latest.files[f].mtime)
                  => decisions[f] = "skip"
            /\ (/\ latest.files[f].present
                /\ source.files[f].size # latest.files[f].size)
                  => decisions[f] = "copy"

\* C6 witness: one file was skipped with an older mtime and the same size,
\* the other copied for its size alone, its mtime being older.
C6_Witness ==
    /\ previous_backup
    /\ decisions["a.txt"] = "skip"
    /\ latest.files["a.txt"].present
    /\ source.files["a.txt"].mtime < latest.files["a.txt"].mtime
    /\ decisions["sub/b.txt"] = "copy"
    /\ latest.files["sub/b.txt"].present
    /\ source.files["sub/b.txt"].size # latest.files["sub/b.txt"].size
    /\ source.files["sub/b.txt"].mtime < latest.files["sub/b.txt"].mtime

\* C7: when the walk of a failure-free run is over, every source file has been
\* counted once: as copied when latest was absent, or held no file at that
\* path, or the file differs from it by the Change Detector's test, as skipped
\* otherwise; the counts add up to the number of source files; and in a
\* non-dry run the snapshot has received the copied files and no other.
C7_WalkPartition ==
    (pc \in {"update_latest", "copytree", "compress", "rotate"} /\ clean) =>
        /\ \A f \in Files :
              decisions[f] =
                 IF ~source.files[f].present THEN "none"
                 ELSE IF \/ ~pre.latest.exists
                         \/ ~pre.latest.files[f].present
                         \/ source.files[f].mtime > pre.latest.files[f].mtime
                         \/ source.files[f].size # pre.latest.files[f].size
                      THEN "copy" ELSE "skip"
        /\ copied_files = Counted("copy")
        /\ skipped_files = Counted("skip")
        /\ copied_files + skipped_files = Cardinality(PresentFiles(source))
        /\ ~args.dry_run =>
              \A f \in Files :
                 backups[backup_folder].files[f] =
                    IF decisions[f] = "copy" THEN source.files[f]
                    ELSE pre.backups[backup_folder].files[f]

\* C7 witness: the second run of the scenario: a.txt, resized since the first
\* run, is copied and sub/b.txt is skipped.
C7_Witness ==
    /\ pc = "update_latest"
    /\ ~args.dry_run
    /\ pre.latest.files["a.txt"].present
    /\ pre.latest.files["sub/b.txt"] = source.files["sub/b.txt"]
    /\ source.files["a.txt"].size # pre.latest.files["a.txt"].size
    /\ decisions["a.txt"] = "copy"
    /\ decisions["sub/b.txt"] = "skip"
    /\ copied_files = 1
    /\ skipped_files = 1
    /\ backups[backup_folder].files["a.txt"] = source.files["a.txt"]
    /\ ~backups[backup_folder].files["sub/b.txt"].present
    /\ PresentFiles(backups[backup_folder]) = {"a.txt"}

\* C8: a run in which the copy of a file failed has still visited every
\* source file and gone on to its later steps, up to the rotation.
C8_CopyFailureContinues ==
    (pc \in Terminal /\ error = "copy") =>
        /\ \A f \in PresentFiles(source) : decisions[f] # "none"
        /\ "rotate" \in Range(steps)

\* C9: a run in which removing or recreating latest failed has still run the
\* archive step, when --zip was given, and the rotation step.
C9_LatestFailureContinues ==
    (pc \in Terminal /\ error \in {"remove_latest", "copytree"}) =>
        /\ args.zip => "compress" \in Range(steps)
        /\ "rotate" \in Range(steps)

\* C10: a rotation in which deleting one folder or archive failed has still
\* attempted the removal of every folder it selected.
C10_RotationFailureIsolated ==
    (pc \in Terminal /\ error \in {"rmtree", "unlink"}) =>
        rotated = Range(RemoveList(listed, args.keep))

\* C11: a run started on a source path that does not exist ends at once and
\* leaves the destination as it was: the root is not created, no snapshot
\* directory, no archive, latest unchanged, and no step of the pipeline (no
\* rotation) is executed.
C11_AbsentSourceNoMutation ==
    (~source.exists /\ pc # "idle") =>
        /\ pc = "aborted"
        /\ destExists = preRoot
        /\ Dest = pre
        /\ steps = << >>
        /\ rotated = {}

\* C11 witness: the run was given --zip and --keep 0 and ended on the missing
\* source with the destination root still absent.
C11_Witness ==
    /\ pc = "aborted"
    /\ ~source.exists
    /\ args.zip
    /\ ~args.dry_run
    /\ ~preRoot
    /\ ~destExists
    /\ Dest = NoDest

\* C12: a backup_* directory that a completed run left behind is never
\* changed by a later run, except removed whole by the rotation, and its
\* archive is never rewritten; two runs in the same second included.
C12_SnapshotImmutable ==
    \A n \in Names :
        /\ pre.backups[n].exists => backups[n] \in {pre.backups[n], NoTree}
        /\ (pre.backups[n].exists /\ pre.zips[n].exists) =>
              zips[n] \in {pre.zips[n], NoZip}

\* C13: when a non-dry run is killed after the old latest was removed and
\* before the new one was made, latest is absent; the walk of the next run
\* then copies every source file and skips none; and that run, when it is not
\* a dry run and completes, leaves latest as a copy of its own snapshot.
C13_CrashDegradation ==
    /\ LatestOpen => ~latest.exists
    /\ (/\ prev.latest_open
        /\ pc \in {"update_latest", "copytree", "compress", "rotate",
                   "rotating", "done"}) =>
            /\ ~pre.latest.exists
            /\ copied_files = Cardinality(PresentFiles(source))
            /\ skipped_files = 0
            /\ \A f \in PresentFiles(source) : decisions[f] = "copy"
    /\ (prev.latest_open /\ pc = "done" /\ ~args.dry_run) =>
            /\ latest.exists
            /\ latest.dirs = backups[backup_folder].dirs
            /\ latest.files = backups[backup_folder].files

\* C13 witness: the run after the kill, a second later, has copied both files
\* into its own snapshot and completed with latest made again from it.
C13_Witness ==
    /\ pc = "done"
    /\ prev.latest_open
    /\ prev.backup_folder # backup_folder
    /\ ~args.dry_run
    /\ ~pre.latest.exists
    /\ copied_files = 2
    /\ skipped_files = 0
    /\ PresentFiles(latest) = Files
    /\ latest.files = backups[backup_folder].files

\* C14: with keep >= 1, rotate_backups (dry or not, and whether or not a
\* removal fails) leaves latest as it was, leaves the keep lexicographically
\* greatest backup_* directories and their archives as they were, and leaves
\* the whole destination as it was when it found at most keep directories.
C14_RotationFrame ==
    args.keep >= 1 =>
        /\ latest = pre.latest
        /\ \A n \in Greatest({m \in Names : pre.backups[m].exists}, args.keep) :
              /\ backups[n] = pre.backups[n]
              /\ zips[n] = pre.zips[n]
        /\ Cardinality({m \in Names : pre.backups[m].exists}) <= args.keep =>
              Dest = pre

\* C14 witness: a non-dry rotation has removed a directory while latest and a
\* kept directory with its archive are still there.
C14_Witness ==
    /\ pc = "done"
    /\ ~args.dry_run
    /\ args.keep >= 1
    /\ rotated # {}
    /\ Dest # pre
    /\ latest.exists
    /\ \E n \in ExistingBackups : zips[n].exists /\ n \notin rotated

\* the place of a step in the pipeline
Rank(step) ==
    CASE step = "mkdir_destination" -> 0
      [] step = "mkdir_snapshot" -> 1
      [] step = "copy" -> 2
      [] step = "remove_latest" -> 3
      [] step = "copytree" -> 4
      [] step = "compress" -> 5
      [] step = "rotate" -> 6

\* C15: within a run the steps come in the order of the pipeline: every file
\* copy before latest is removed or recreated (latest is untouched while the
\* walk lasts), the recreation of latest before the archive is written, and
\* the archive step before the rotation lists or deletes a snapshot.
C15_StepOrder ==
    /\ \A i, j \in 1 .. Len(steps) : i < j => Rank(steps[i]) <= Rank(steps[j])
    /\ pc \in {"backup", "walk", "update_latest"} => latest = pre.latest
    /\ (\E i \in 1 .. Len(steps) : steps[i] \in {"remove_latest", "copytree"}) =>
          /\ todo = << >>
          /\ pc \notin {"backup", "walk"}
    /\ (zips # pre.zips \/ "compress" \in Range(steps)) =>
          /\ pc \in {"rotate", "rotating", "done"}
          /\ ~args.dry_run => "copytree" \in Range(steps)
    /\ (\/ listed # << >>
        \/ "rotate" \in Range(steps)
        \/ \E n \in Names : pre.backups[n].exists /\ ~backups[n].exists) =>
          /\ pc \in {"rotating", "done"}
          /\ args.zip => "compress" \in Range(steps)
          /\ (args.zip /\ ~args.dry_run) => zips[backup_folder].exists

\* C15 witness: a non-dry run with --zip has copied a file, replaced an
\* existing latest, written the archive and rotated a snapshot away.
C15_Witness ==
    /\ pc = "done"
    /\ ~args.dry_run
    /\ args.zip
    /\ rotated # {}
    /\ \E i, j, k, l \in 1 .. Len(steps) :
          /\ i < j /\ j < k /\ k < l /\ l < Len(steps)
          /\ steps[i] = "copy"
          /\ steps[j] = "remove_latest"
          /\ steps[k] = "copytree"
          /\ steps[l] = "compress"
          /\ steps[Len(steps)] = "rotate"

\* C16: right after a non-dry compress_backup the archive of the snapshot
\* exists and holds, under each relative path of the snapshot, the file of the
\* snapshot at that path and nothing else (as many entries as files), and the
\* snapshot directory is what it was before the archive step (the tree latest
\* was copied from).
C16_ArchiveRoundTrip ==
    (pc = "rotate" /\ args.zip /\ ~args.dry_run) =>
        /\ zips[backup_folder].exists
        /\ \A f \in Files :
              zips[backup_folder].entries[f] = backups[backup_folder].files[f]
        /\ Cardinality({f \in Files : zips[backup_folder].entries[f].present})
              = Cardinality(PresentFiles(backups[backup_folder]))
        /\ backups[backup_folder].exists
        /\ backups[backup_folder].dirs = latest.dirs
        /\ backups[backup_folder].files = latest.files

\* C16 witness: a snapshot with a file in its root and one in sub/ has been
\* archived, and the archive was not there before the run.
C16_Witness ==
    /\ pc = "rotate"
    /\ args.zip
    /\ ~args.dry_run
    /\ ~pre.zips[backup_folder].exists
    /\ PresentFiles(backups[backup_folder]) = Files
    /\ zips[backup_folder].entries["sub/b.txt"] = source.files["sub/b.txt"]
    /\ zips[backup_folder].entries["a.txt"] = source.files["a.txt"]
    /\ source.files["a.txt"] # source.files["sub/b.txt"]

\* C17: a non-dry rotate_backups with keep = 0 that found at least one
\* backup_* directory and returned has removed every directory it listed and
\* their archives: no backup_* directory is left.
C17_KeepZeroRemovesAll ==
    (/\ pc = "done" /\ clean /\ ~args.dry_run
     /\ args.keep = 0 /\ Len(listed) >= 1) =>
        /\ ExistingBackups = {}
        /\ rotated = Range(listed)
        /\ \A n \in Range(listed) : ~zips[n].exists

\* C18: from an empty destination, after every completed failure-free non-dry
\* run with keep >= 1, every file of the source (not edited since the run
\* started) is held, with its size and mtime, by a backup_* directory that is
\* still there after the rotation.
C18_BackupCoverage ==
    (/\ pc = "done" /\ clean /\ ~args.dry_run
     /\ args.keep >= 1 /\ ~srcChanged) =>
        \A f \in PresentFiles(source) :
            \E n \in ExistingBackups : backups[n].files[f] = source.files[f]

====
